---------------------------- MODULE Spec2Model ----------------------------
(***************************************************************************)
(* Model of the two traversal visualisers of a3:                           *)
(*   0901AI231019_File1.py  GraphVisualizer (6-node graph, BFS / DFS)      *)
(*   0901AI231019_File2.py  MazeVisualizer  (grid maze,   BFS / DFS)       *)
(* The four traversal generators are modelled as resumable frames: one     *)
(* next() call runs a frame from one yield to the next.  The drivers       *)
(* (mouse events, update() on every frame) are modelled around them.       *)
(***************************************************************************)
EXTENDS Integers, Sequences, FiniteSets, TLC

VARIABLES
    app,                \* which program runs: "graph" (File1) or "maze" (File2)
    grid,               \* the grid handed to create_maze_graph
    visited,            \* self.visited: a reference to a set object
    order,              \* self.order (graph demo)
    active_structure,   \* self.active_structure (graph demo)
    current_node,       \* self.current_node
    traversal_gen,      \* self.traversal_gen: None or the live generator frame
    last_step_time,     \* self.last_step_time
    is_bfs,             \* self.is_bfs
    start_node,         \* self.start_node (graph demo)
    status,             \* self.status
    animation_finished, \* self.animation_finished
    path,               \* self.path (maze demo)
    comparison_stats,   \* self.comparison_stats (maze demo)
    radio_selected,     \* the radio button whose .selected is True
    speed_value,        \* self.speed_slider.value, in tenths
    dragging,           \* self.speed_slider.dragging
    now,                \* pygame.time.get_ticks(), in ms
    trace,              \* the step records the live generator has yielded
    superseded          \* the live generator took the place of one in progress

vars == <<app, grid, visited, order, active_structure, current_node,
          traversal_gen, last_step_time, is_bfs, start_node, status,
          animation_finished, path, comparison_stats, radio_selected,
          speed_value, dragging, now, trace, superseded>>

(***************************************************************************)
(* Bounds of the model.                                                    *)
(***************************************************************************)
MaxRows == 3
MaxCols == 3
MaxWalls == 3
MaxNow == 9000

\* Milliseconds that may pass between two frames of the run loop.
FrameTimes == {500, 1000}

(***************************************************************************)
(* Python values.                                                          *)
(***************************************************************************)
\* None is the empty sequence, any other optional value a one-element one.
None == <<>>
Some(x) == <<x>>

\* A Python list indexed from 0.
PyList(s) == [i \in 0..(Len(s) - 1) |-> s[i + 1]]

PyLen(l) == Cardinality(DOMAIN l)

\* reversed() left out: the list as it stands.
ReverseNot(s) == s

Reverse(s) == [i \in 1..Len(s) |-> s[Len(s) + 1 - i]]

Last(s) == s[Len(s)]

Front(s) == SubSeq(s, 1, Len(s) - 1)

SetMin(S) == CHOOSE x \in S : \A y \in S : x <= y

(***************************************************************************)
(* File1: graph configuration.                                             *)
(***************************************************************************)
Nodes == {"A", "B", "C", "D", "E", "F"}

GRAPH ==
    [n \in Nodes |->
        CASE n = "A" -> <<"B", "C">>
          [] n = "B" -> <<"D", "E">>
          [] n = "C" -> <<"F">>
          [] n = "D" -> <<>>
          [] n = "E" -> <<"F">>
          [] n = "F" -> <<>>]

(***************************************************************************)
(* File2: maze configuration.                                              *)
(***************************************************************************)
MAZE_GRID == PyList(<<PyList(<<0, 0, 0>>), PyList(<<0, 1, 0>>), PyList(<<0, 0, 0>>)>>)
START_POS == <<0, 0>>
EXIT_POS == <<2, 2>>

\* create_maze_graph with the directions tried left, right, up, down.
create_maze_graph_colfirst(g) ==
    LET rows == PyLen(g)
        cols == PyLen(g[0])
        dirs == << <<0, -1>>, <<0, 1>>, <<-1, 0>>, <<1, 0>> >>
        Ok(cell) == /\ 0 <= cell[1] /\ cell[1] < rows
                    /\ 0 <= cell[2] /\ cell[2] < cols
                    /\ g[cell[1]][cell[2]] = 0
        cells == {rc \in (0..(rows - 1)) \X (0..(cols - 1)) : g[rc[1]][rc[2]] = 0}
    IN  [rc \in cells |->
            SelectSeq([i \in 1..4 |-> <<rc[1] + dirs[i][1], rc[2] + dirs[i][2]>>], Ok)]

\* create_maze_graph: open cell -> its open orthogonal neighbours, in the
\* order up, down, left, right.
create_maze_graph(g) ==
    LET rows == PyLen(g)
        cols == PyLen(g[0])
        dirs == << <<-1, 0>>, <<1, 0>>, <<0, -1>>, <<0, 1>> >>
        Ok(cell) == /\ 0 <= cell[1] /\ cell[1] < rows
                    /\ 0 <= cell[2] /\ cell[2] < cols
                    /\ g[cell[1]][cell[2]] = 0
        cells == {rc \in (0..(rows - 1)) \X (0..(cols - 1)) : g[rc[1]][rc[2]] = 0}
    IN  [rc \in cells |->
            SelectSeq([i \in 1..4 |-> <<rc[1] + dirs[i][1], rc[2] + dirs[i][2]>>], Ok)]

\* self.graph, built once in MazeVisualizer.__init__.
graph == create_maze_graph(grid)

(***************************************************************************)
(* Step records.  The visited element of a yielded tuple is the frame's    *)
(* own set object, not a copy: the model keeps its contents at the time    *)
(* of the yield in trace.                                                  *)
(***************************************************************************)
StepRec(type, node, vis, structure) ==
    [type |-> type, node |-> node, visited |-> vis, structure |-> structure]

\* A frame that has not been started: the body runs on the first next().
NewGen(fn, start) ==
    [fn |-> fn, pc |-> "start", start |-> start, visited |-> {},
     frontier |-> <<>>, node |-> None, path |-> <<>>, k |-> 0]

\* The neighbours of a for loop that are still to come and pass the
\* "not in visited" test; the loop body runs for the first of them.
Unseen(nbrs, k, vis) == {j \in (k + 1)..Len(nbrs) : nbrs[j] \notin vis}


(***************************************************************************)
(* File1: GraphVisualizer.get_bfs_gen.  A result is the frame after the    *)
(* next() call, the yielded record (None for StopIteration) and self.order.*)
(***************************************************************************)
\* queue.pop() in the place of queue.popleft().
PopLeftLifo(queue) == [node |-> Last(queue), rest |-> Front(queue)]

\* queue.popleft(): the node taken and what stays in the queue.
PopLeft(queue) == [node |-> Head(queue), rest |-> Tail(queue)]

\* stack.pop(): the node taken and what stays on the stack.
Pop(stack) == [node |-> Last(stack), rest |-> Front(stack)]

\* get_bfs_gen yielding self.visited, which stays empty, in its done record.
GraphBfsWhileOwnVisited(g, ord) ==
    IF g.frontier # <<>>
    THEN LET p == PopLeft(g.frontier)
         IN  [gen |-> [g EXCEPT !.pc = "visit", !.frontier = p.rest,
                                !.node = Some(p.node), !.k = 0],
              res |-> Some(StepRec("visit", Some(p.node), g.visited, p.rest)),
              order |-> Append(ord, p.node)]
    ELSE [gen |-> [g EXCEPT !.pc = "done"],
          res |-> Some(StepRec("done", None, {}, <<>>)),
          order |-> ord]

\* `while queue:` of get_bfs_gen, down to the next yield.
GraphBfsWhile(g, ord) ==
    IF g.frontier # <<>>
    THEN LET p == PopLeft(g.frontier)
         IN  [gen |-> [g EXCEPT !.pc = "visit", !.frontier = p.rest,
                                !.node = Some(p.node), !.k = 0],
              res |-> Some(StepRec("visit", Some(p.node), g.visited, p.rest)),
              order |-> Append(ord, p.node)]
    ELSE [gen |-> [g EXCEPT !.pc = "done"],
          res |-> Some(StepRec("done", None, g.visited, <<>>)),
          order |-> ord]

\* get_bfs_gen without its `if neighbor not in visited:` test.
GraphBfsForNoCheck(g, ord) ==
    LET nbrs == GRAPH[g.node[1]]
        todo == (g.k + 1)..Len(nbrs)
    IN  IF todo # {}
        THEN LET j == SetMin(todo)
                 vis == g.visited \cup {nbrs[j]}
                 queue == Append(g.frontier, nbrs[j])
             IN  [gen |-> [g EXCEPT !.pc = "queue", !.visited = vis,
                                    !.frontier = queue, !.k = j],
                  res |-> Some(StepRec("queue", Some(nbrs[j]), vis, queue)),
                  order |-> ord]
        ELSE GraphBfsWhile(g, ord)

\* `for neighbor in GRAPH[node]:` of get_bfs_gen, resumed after k neighbours.
GraphBfsFor(g, ord) ==
    LET nbrs == GRAPH[g.node[1]]
        todo == Unseen(nbrs, g.k, g.visited)
    IN  IF todo # {}
        THEN LET j == SetMin(todo)
                 vis == g.visited \cup {nbrs[j]}
                 queue == Append(g.frontier, nbrs[j])
             IN  [gen |-> [g EXCEPT !.pc = "queue", !.visited = vis,
                                    !.frontier = queue, !.k = j],
                  res |-> Some(StepRec("queue", Some(nbrs[j]), vis, queue)),
                  order |-> ord]
        ELSE GraphBfsWhile(g, ord)

Graph_get_bfs_gen(g, ord) ==
    CASE g.pc = "start" ->
            [gen |-> [g EXCEPT !.pc = "init", !.visited = {g.start},
                               !.frontier = <<g.start>>],
             res |-> Some(StepRec("init", None, {g.start}, <<g.start>>)),
             order |-> ord]
      [] g.pc = "init" -> GraphBfsWhile(g, ord)
      [] g.pc \in {"visit", "queue"} -> GraphBfsFor(g, ord)
      [] OTHER -> [gen |-> [g EXCEPT !.pc = "end"], res |-> None, order |-> ord]

(***************************************************************************)
(* File1: GraphVisualizer.get_dfs_gen.                                     *)
(***************************************************************************)
RECURSIVE GraphDfsWhile(_, _)
\* `while stack:` of get_dfs_gen: entries already visited are popped and
\* dropped without a yield.
GraphDfsWhile(g, ord) ==
    IF g.frontier # <<>>
    THEN LET p == Pop(g.frontier)
         IN  IF p.node \notin g.visited
             THEN LET vis == g.visited \cup {p.node}
                  IN  [gen |-> [g EXCEPT !.pc = "visit", !.visited = vis,
                                         !.frontier = p.rest,
                                         !.node = Some(p.node), !.k = 0],
                       res |-> Some(StepRec("visit", Some(p.node), vis, p.rest)),
                       order |-> Append(ord, p.node)]
             ELSE GraphDfsWhile([g EXCEPT !.frontier = p.rest], ord)
    ELSE [gen |-> [g EXCEPT !.pc = "done"],
          res |-> Some(StepRec("done", None, g.visited, <<>>)),
          order |-> ord]

\* `for neighbor in reversed(GRAPH[node]):` of get_dfs_gen.
GraphDfsFor(g, ord) ==
    LET nbrs == Reverse(GRAPH[g.node[1]])
        todo == Unseen(nbrs, g.k, g.visited)
    IN  IF todo # {}
        THEN LET j == SetMin(todo)
                 stack == Append(g.frontier, nbrs[j])
             IN  [gen |-> [g EXCEPT !.pc = "stack", !.frontier = stack, !.k = j],
                  res |-> Some(StepRec("stack", Some(nbrs[j]), g.visited, stack)),
                  order |-> ord]
        ELSE GraphDfsWhile(g, ord)

Graph_get_dfs_gen(g, ord) ==
    CASE g.pc = "start" ->
            [gen |-> [g EXCEPT !.pc = "init", !.visited = {},
                               !.frontier = <<g.start>>],
             res |-> Some(StepRec("init", None, {}, <<g.start>>)),
             order |-> ord]
      [] g.pc = "init" -> GraphDfsWhile(g, ord)
      [] g.pc \in {"visit", "stack"} -> GraphDfsFor(g, ord)
      [] OTHER -> [gen |-> [g EXCEPT !.pc = "end"], res |-> None, order |-> ord]

(***************************************************************************)
(* File2: MazeVisualizer.get_bfs_gen.  A frontier entry is (node, path).   *)
(* A result is the frame after the next() call, the yielded record (None   *)
(* for StopIteration) and the fields of self the generator assigns.        *)
(***************************************************************************)
\* [neighbor] + path in the place of path + [neighbor].
ExtendFront(p, nb) == <<nb>> \o p

\* path + [neighbor]
Extend(p, nb) == Append(p, nb)

Entry(node, p) == [node |-> node, path |-> p]

MazeSelf(cur, p, stats) == [current_node |-> cur, path |-> p, comparison_stats |-> stats]

\* An exit test that never succeeds.
AtExitNever(node) == FALSE

\* `if node == EXIT_POS:` of both maze generators.
AtExit(node) == node = EXIT_POS

\* `while queue:` of get_bfs_gen, down to the next yield.
MazeBfsWhile(g, self) ==
    IF g.frontier # <<>>
    THEN LET p == PopLeft(g.frontier)
         IN  [gen |-> [g EXCEPT !.pc = "visit", !.frontier = p.rest,
                                !.node = Some(p.node.node), !.path = p.node.path,
                                !.k = 0],
              res |-> Some(StepRec("visit", Some(p.node.node), g.visited, p.node.path)),
              self |-> MazeSelf(Some(p.node.node), p.node.path,
                                [self.comparison_stats EXCEPT !.bfs = @ + 1])]
    ELSE [gen |-> [g EXCEPT !.pc = "fail"],
          res |-> Some(StepRec("fail", None, g.visited, <<>>)),
          self |-> self]

\* get_bfs_gen with queue.appendleft in the place of queue.append.
MazeBfsForLifo(g, self, gr) ==
    LET nbrs == gr[g.node[1]]
        todo == Unseen(nbrs, g.k, g.visited)
    IN  IF todo # {}
        THEN LET j == SetMin(todo)
                 vis == g.visited \cup {nbrs[j]}
             IN  [gen |-> [g EXCEPT !.pc = "discover", !.visited = vis,
                                    !.frontier = <<Entry(nbrs[j], Extend(g.path, nbrs[j]))>> \o @,
                                    !.k = j],
                  res |-> Some(StepRec("discover", Some(nbrs[j]), vis, g.path)),
                  self |-> self]
        ELSE MazeBfsWhile(g, self)

\* `for neighbor in self.graph[node]:` of get_bfs_gen.
MazeBfsFor(g, self, gr) ==
    LET nbrs == gr[g.node[1]]
        todo == Unseen(nbrs, g.k, g.visited)
    IN  IF todo # {}
        THEN LET j == SetMin(todo)
                 vis == g.visited \cup {nbrs[j]}
             IN  [gen |-> [g EXCEPT !.pc = "discover", !.visited = vis,
                                    !.frontier = Append(@, Entry(nbrs[j], Extend(g.path, nbrs[j]))),
                                    !.k = j],
                  res |-> Some(StepRec("discover", Some(nbrs[j]), vis, g.path)),
                  self |-> self]
        ELSE MazeBfsWhile(g, self)

\* The yield of "done" that follows the visit of the exit.
MazeDone(g, self) ==
    [gen |-> [g EXCEPT !.pc = "done"],
     res |-> Some(StepRec("done", g.node, g.visited, g.path)),
     self |-> self]

Maze_get_bfs_gen(g, self, gr) ==
    CASE g.pc = "start" ->
            LET queue == <<Entry(g.start, <<g.start>>)>>
            IN  [gen |-> [g EXCEPT !.pc = "init", !.visited = {g.start},
                                   !.frontier = queue],
                 res |-> Some(StepRec("init", Some(g.start), {g.start}, queue)),
                 self |-> self]
      [] g.pc = "init" -> MazeBfsWhile(g, self)
      [] g.pc = "visit" -> IF AtExit(g.node[1]) THEN MazeDone(g, self)
                                                ELSE MazeBfsFor(g, self, gr)
      [] g.pc = "discover" -> MazeBfsFor(g, self, gr)
      [] OTHER -> [gen |-> [g EXCEPT !.pc = "end"], res |-> None, self |-> self]

(***************************************************************************)
(* File2: MazeVisualizer.get_dfs_gen.  It yields no "init" record: the     *)
(* first next() runs straight into the while loop.                         *)
(***************************************************************************)
RECURSIVE MazeDfsWhile(_, _)
\* `while stack:` of get_dfs_gen: entries already visited are popped and
\* dropped without a yield.
MazeDfsWhile(g, self) ==
    IF g.frontier # <<>>
    THEN LET p == Pop(g.frontier)
         IN  IF p.node.node \notin g.visited
             THEN LET vis == g.visited \cup {p.node.node}
                  IN  [gen |-> [g EXCEPT !.pc = "visit", !.visited = vis,
                                         !.frontier = p.rest,
                                         !.node = Some(p.node.node),
                                         !.path = p.node.path, !.k = 0],
                       res |-> Some(StepRec("visit", Some(p.node.node), vis, p.node.path)),
                       self |-> MazeSelf(Some(p.node.node), p.node.path,
                                         [self.comparison_stats EXCEPT !.dfs = @ + 1])]
             ELSE MazeDfsWhile([g EXCEPT !.frontier = p.rest], self)
    ELSE [gen |-> [g EXCEPT !.pc = "fail"],
          res |-> Some(StepRec("fail", None, g.visited, <<>>)),
          self |-> self]

\* `for neighbor in reversed(self.graph[node]):` of get_dfs_gen.
MazeDfsFor(g, self, gr) ==
    LET nbrs == Reverse(gr[g.node[1]])
        todo == Unseen(nbrs, g.k, g.visited)
    IN  IF todo # {}
        THEN LET j == SetMin(todo)
             IN  [gen |-> [g EXCEPT !.pc = "discover",
                                    !.frontier = Append(@, Entry(nbrs[j], Extend(g.path, nbrs[j]))),
                                    !.k = j],
                  res |-> Some(StepRec("discover", Some(nbrs[j]), g.visited, g.path)),
                  self |-> self]
        ELSE MazeDfsWhile(g, self)

Maze_get_dfs_gen(g, self, gr) ==
    CASE g.pc = "start" ->
            MazeDfsWhile([g EXCEPT !.visited = {},
                                   !.frontier = <<Entry(g.start, <<g.start>>)>>], self)
      [] g.pc = "visit" -> IF AtExit(g.node[1]) THEN MazeDone(g, self)
                                                ELSE MazeDfsFor(g, self, gr)
      [] g.pc = "discover" -> MazeDfsFor(g, self, gr)
      [] OTHER -> [gen |-> [g EXCEPT !.pc = "end"], res |-> None, self |-> self]

(***************************************************************************)
(* The visualiser objects.                                                 *)
(***************************************************************************)
\* self.visited = set() makes a set of its own; the maze driver's
\* self.visited = visited makes it the generator's set object.
OwnSet == "own"
GenSet == "gen"

\* The elements of self.visited.
VisitedOf == IF visited = GenSet THEN traversal_gen[1].visited ELSE {}

READY_GRAPH == <<"System Ready. Select start node and algorithm.">>
READY_MAZE == <<"Select algorithm to start the challenge.">>

\* Slider(rect, 0.5, 5.0, initial): the values in tenths.
SLIDER_MIN == 5
SLIDER_MAX == 50
GRAPH_SPEED == 10
MAZE_SPEED == 15

\* rel_x / self.rect.width at the two ends of the slider.
DragRatios == {0, 1}

\* What reset_state leaves in self.start_node.
reset_start_node == "A"

\* A traversal is in progress: a generator is held, it has yielded records
\* and the animation has not finished.
InProgress == traversal_gen # None /\ trace # <<>> /\ ~animation_finished

\* A reset_state that leaves self.order and self.comparison_stats alone.
ResetThenKeepsOrder(bfs, gen) ==
    /\ visited' = OwnSet
    /\ order' = order
    /\ active_structure' = <<>>
    /\ current_node' = None
    /\ last_step_time' = 0
    /\ start_node' = IF app = "graph" THEN reset_start_node ELSE start_node
    /\ status' = IF app = "graph" THEN READY_GRAPH ELSE READY_MAZE
    /\ animation_finished' = FALSE
    /\ path' = <<>>
    /\ comparison_stats' = comparison_stats
    /\ is_bfs' = bfs
    /\ traversal_gen' = gen
    /\ trace' = <<>>
    /\ superseded' = (gen # None /\ InProgress)

\* reset_state, followed by the assignments of is_bfs and traversal_gen a
\* button handler makes after it (TRUE and None for reset_state alone).
ResetThen(bfs, gen) ==
    /\ visited' = OwnSet
    /\ order' = <<>>
    /\ active_structure' = <<>>
    /\ current_node' = None
    /\ last_step_time' = 0
    /\ start_node' = IF app = "graph" THEN reset_start_node ELSE start_node
    /\ status' = IF app = "graph" THEN READY_GRAPH ELSE READY_MAZE
    /\ animation_finished' = FALSE
    /\ path' = <<>>
    /\ comparison_stats' = [bfs |-> 0, dfs |-> 0]
    /\ is_bfs' = bfs
    /\ traversal_gen' = gen
    /\ trace' = <<>>
    /\ superseded' = (gen # None /\ InProgress)

\* The start the run buttons hand to the generator: self.start_node as
\* reset_state has just left it (graph demo), START_POS (maze demo).
RunStart == IF app = "graph" THEN start_node' ELSE START_POS

\* MOUSEBUTTONDOWN on the "Run BFS" button.
PressBfs ==
    /\ ResetThen(TRUE, Some(NewGen("get_bfs_gen", RunStart)))
    /\ UNCHANGED <<app, grid, radio_selected, speed_value, dragging, now>>

\* MOUSEBUTTONDOWN on the "Run DFS" button.
PressDfs ==
    /\ ResetThen(FALSE, Some(NewGen("get_dfs_gen", RunStart)))
    /\ UNCHANGED <<app, grid, radio_selected, speed_value, dragging, now>>

\* MOUSEBUTTONDOWN on the "Reset" button.
PressReset ==
    /\ ResetThen(TRUE, None)
    /\ UNCHANGED <<app, grid, radio_selected, speed_value, dragging, now>>

\* MOUSEBUTTONDOWN on the radio button of node n (graph demo):
\* self.start_node = rb.node_id, then self.reset_state().
SelectNode(n) ==
    /\ app = "graph"
    /\ radio_selected' = n
    /\ ResetThen(TRUE, None)
    /\ UNCHANGED <<app, grid, speed_value, dragging, now>>

\* Slider.handle_event: MOUSEBUTTONDOWN on the slider.
SliderDown ==
    /\ dragging' = TRUE
    /\ UNCHANGED <<superseded, app, grid, visited, order, active_structure, current_node,
                   traversal_gen, last_step_time, is_bfs, start_node, status,
                   animation_finished, path, comparison_stats, radio_selected,
                   speed_value, now, trace>>

\* Slider.handle_event: MOUSEBUTTONUP.
SliderUp ==
    /\ dragging' = FALSE
    /\ UNCHANGED <<superseded, app, grid, visited, order, active_structure, current_node,
                   traversal_gen, last_step_time, is_bfs, start_node, status,
                   animation_finished, path, comparison_stats, radio_selected,
                   speed_value, now, trace>>

\* Slider.handle_event: MOUSEMOTION to the place at `ratio` of the width.
SliderMotion(ratio) ==
    /\ dragging
    /\ speed_value' = SLIDER_MIN + ratio * (SLIDER_MAX - SLIDER_MIN)
    /\ UNCHANGED <<superseded, app, grid, visited, order, active_structure, current_node,
                   traversal_gen, last_step_time, is_bfs, start_node, status,
                   animation_finished, path, comparison_stats, radio_selected,
                   dragging, now, trace>>

(***************************************************************************)
(* update(), called once per frame of run().                               *)
(***************************************************************************)
\* The pacing test with >= in the place of >.
StepDueGe(t, last, speed) == (t - last) * speed >= 10000

\* now - self.last_step_time > 1000 / self.speed_slider.value
StepDue(t, last, speed) == (t - last) * speed > 10000

\* next(self.traversal_gen) of the graph demo.
GraphNext(g, ord) ==
    IF g.fn = "get_bfs_gen" THEN Graph_get_bfs_gen(g, ord)
                            ELSE Graph_get_dfs_gen(g, ord)

\* next(self.traversal_gen) of the maze demo.
MazeNext(g, self, gr) ==
    IF g.fn = "get_bfs_gen" THEN Maze_get_bfs_gen(g, self, gr)
                            ELSE Maze_get_dfs_gen(g, self, gr)

\* The try block of GraphVisualizer.update at time t.
GraphPull(t) ==
    LET r == GraphNext(traversal_gen[1], order)
    IN  /\ traversal_gen' = Some(r.gen)
        /\ order' = r.order
        /\ IF r.res = None
           THEN /\ animation_finished' = TRUE
                /\ UNCHANGED <<active_structure, last_step_time, current_node,
                               status, trace>>
           ELSE LET step == r.res[1]
                IN  /\ active_structure' = step.structure
                    /\ last_step_time' = t
                    /\ current_node' =
                         CASE step.type = "visit" -> step.node
                           [] step.type = "done" -> None
                           [] OTHER -> current_node
                    /\ status' =
                         CASE step.type = "visit" -> <<"Exploring node", step.node[1]>>
                           [] step.type \in {"queue", "stack"} ->
                                <<"Discovered node", step.node[1]>>
                           [] step.type = "done" -> <<"Traversal complete.">>
                           [] OTHER -> status
                    /\ animation_finished' = (step.type = "done")
                    /\ trace' = Append(trace, step)
        /\ UNCHANGED <<visited, path, comparison_stats>>

\* MazeVisualizer.update whose StopIteration handler also clears
\* self.current_node, as the done branch of the graph demo does.
MazePullClearsNode(t) ==
    LET r == MazeNext(traversal_gen[1],
                      MazeSelf(current_node, path, comparison_stats), graph)
    IN  /\ traversal_gen' = Some(r.gen)
        /\ current_node' = IF r.res = None THEN None ELSE r.self.current_node
        /\ path' = r.self.path
        /\ comparison_stats' = r.self.comparison_stats
        /\ IF r.res = None
           THEN /\ animation_finished' = TRUE
                /\ UNCHANGED <<visited, last_step_time, status, trace>>
           ELSE LET step == r.res[1]
                IN  /\ visited' = GenSet
                    /\ last_step_time' = t
                    /\ status' =
                         CASE step.type = "visit" -> <<"Evaluating cell", step.node[1]>>
                           [] step.type = "done" -> <<"Exit Found! Path highlighted.">>
                           [] OTHER -> status
                    /\ animation_finished' = (step.type = "done")
                    /\ trace' = Append(trace, step)
        /\ UNCHANGED <<order, active_structure>>

\* The try block of MazeVisualizer.update at time t.
MazePull(t) ==
    LET r == MazeNext(traversal_gen[1],
                      MazeSelf(current_node, path, comparison_stats), graph)
    IN  /\ traversal_gen' = Some(r.gen)
        /\ current_node' = r.self.current_node
        /\ path' = r.self.path
        /\ comparison_stats' = r.self.comparison_stats
        /\ IF r.res = None
           THEN /\ animation_finished' = TRUE
                /\ UNCHANGED <<visited, last_step_time, status, trace>>
           ELSE LET step == r.res[1]
                IN  /\ visited' = GenSet
                    /\ last_step_time' = t
                    /\ status' =
                         CASE step.type = "visit" -> <<"Evaluating cell", step.node[1]>>
                           [] step.type = "done" -> <<"Exit Found! Path highlighted.">>
                           [] OTHER -> status
                    /\ animation_finished' = (step.type = "done")
                    /\ trace' = Append(trace, step)
        /\ UNCHANGED <<order, active_structure>>

\* One frame of run() in which d ms have passed and no event is queued:
\* update() reads the clock and pulls at most one step.
Frame(d) ==
    /\ now + d <= MaxNow
    /\ now' = now + d
    /\ IF /\ traversal_gen # None
          /\ ~animation_finished
          /\ StepDue(now', last_step_time, speed_value)
       THEN IF app = "graph" THEN GraphPull(now') ELSE MazePull(now')
       ELSE UNCHANGED <<visited, order, active_structure, current_node,
                        traversal_gen, last_step_time, status,
                        animation_finished, path, comparison_stats, trace>>
    /\ UNCHANGED <<superseded, app, grid, is_bfs, start_node, radio_selected, speed_value,
                   dragging>>

(***************************************************************************)
(* The two programs: GraphVisualizer().run() and MazeVisualizer().run().   *)
(***************************************************************************)
\* The object after __init__ (reset_state and setup_ui) of program a.
Constructed(a, gr) ==
    /\ app = a
    /\ grid = gr
    /\ visited = OwnSet
    /\ order = <<>>
    /\ active_structure = <<>>
    /\ current_node = None
    /\ traversal_gen = None
    /\ last_step_time = 0
    /\ is_bfs = TRUE
    /\ start_node = "A"
    /\ status = IF a = "graph" THEN READY_GRAPH ELSE READY_MAZE
    /\ animation_finished = FALSE
    /\ path = <<>>
    /\ comparison_stats = [bfs |-> 0, dfs |-> 0]
    /\ radio_selected = "A"
    /\ speed_value = IF a = "graph" THEN GRAPH_SPEED ELSE MAZE_SPEED
    /\ dragging = FALSE
    /\ now = 0
    /\ trace = <<>>
    /\ superseded = FALSE

Init == \E a \in {"graph", "maze"} : Constructed(a, MAZE_GRID)

Next ==
    \/ PressBfs
    \/ PressDfs
    \/ PressReset
    \/ \E n \in Nodes : SelectNode(n)
    \/ SliderDown
    \/ SliderUp
    \/ \E ratio \in DragRatios : SliderMotion(ratio)
    \/ \E d \in FrameTimes : Frame(d)

Spec == Init /\ [][Next]_vars

(***************************************************************************)
(* The drivers over a second maze as well: in SEALED_GRID the exit is open *)
(* but walled off, so the maze generators end with fail and update() meets *)
(* StopIteration, which MAZE_GRID never brings about.                      *)
(***************************************************************************)
SEALED_GRID == PyList(<<PyList(<<0, 0, 0>>), PyList(<<0, 1, 1>>), PyList(<<0, 1, 0>>)>>)

DriveGrids == {MAZE_GRID, SEALED_GRID}

InitDrive ==
    \/ Constructed("graph", MAZE_GRID)
    \/ \E g \in DriveGrids : Constructed("maze", g)

SpecDrive == InitDrive /\ [][Next]_vars

(***************************************************************************)
(* The generators on their own: a generator of a freshly constructed       *)
(* visualiser is created for any start node of GRAPH (graph demo) or for   *)
(* START_POS on any well-formed grid with an open start cell (maze demo),  *)
(* and next() is called on it until it raises StopIteration.               *)
(***************************************************************************)
WallCount(g) ==
    Cardinality({rc \in (DOMAIN g) \X (DOMAIN g[0]) : g[rc[1]][rc[2]] = 1})

\* The well-formed rectangular grids within the bounds, start cell open.
Grids ==
    UNION {{g \in [0..(R - 1) -> [0..(C - 1) -> {0, 1}]] :
                g[START_POS[1]][START_POS[2]] = 0 /\ WallCount(g) <= MaxWalls} :
           <<R, C>> \in (1..MaxRows) \X (1..MaxCols)}

Starts == IF app = "graph" THEN Nodes ELSE {START_POS}

InitGen ==
    \/ Constructed("graph", MAZE_GRID)
    \/ \E g \in Grids : Constructed("maze", g)

\* gen = self.get_bfs_gen(s)
CallBfs(s) ==
    /\ traversal_gen = None
    /\ traversal_gen' = Some(NewGen("get_bfs_gen", s))
    /\ UNCHANGED <<app, grid, visited, order, active_structure, current_node,
                   last_step_time, is_bfs, start_node, status,
                   animation_finished, path, comparison_stats, radio_selected,
                   speed_value, dragging, now, trace, superseded>>

\* gen = self.get_dfs_gen(s)
CallDfs(s) ==
    /\ traversal_gen = None
    /\ traversal_gen' = Some(NewGen("get_dfs_gen", s))
    /\ UNCHANGED <<app, grid, visited, order, active_structure, current_node,
                   last_step_time, is_bfs, start_node, status,
                   animation_finished, path, comparison_stats, radio_selected,
                   speed_value, dragging, now, trace, superseded>>

\* next(gen) on a graph-demo generator.
GraphStep ==
    /\ app = "graph"
    /\ traversal_gen # None
    /\ traversal_gen[1].pc # "end"
    /\ LET r == GraphNext(traversal_gen[1], order)
       IN  /\ traversal_gen' = Some(r.gen)
           /\ order' = r.order
           /\ trace' = IF r.res = None THEN trace ELSE Append(trace, r.res[1])
    /\ UNCHANGED <<superseded, app, grid, visited, active_structure, current_node,
                   last_step_time, is_bfs, start_node, status,
                   animation_finished, path, comparison_stats, radio_selected,
                   speed_value, dragging, now>>

\* next(gen) on a maze-demo generator.
MazeStep ==
    /\ app = "maze"
    /\ traversal_gen # None
    /\ traversal_gen[1].pc # "end"
    /\ LET r == MazeNext(traversal_gen[1],
                         MazeSelf(current_node, path, comparison_stats), graph)
       IN  /\ traversal_gen' = Some(r.gen)
           /\ current_node' = r.self.current_node
           /\ path' = r.self.path
           /\ comparison_stats' = r.self.comparison_stats
           /\ trace' = IF r.res = None THEN trace ELSE Append(trace, r.res[1])
    /\ UNCHANGED <<superseded, app, grid, visited, order, active_structure,
                   last_step_time, is_bfs, start_node, status,
                   animation_finished, radio_selected,
                   speed_value, dragging, now>>

NextGen ==
    \/ \E s \in Starts : CallBfs(s)
    \/ \E s \in Starts : CallDfs(s)
    \/ GraphStep
    \/ MazeStep

SpecGen == InitGen /\ [][NextGen]_vars

(***************************************************************************)
(* Vocabulary of the properties.                                           *)
(***************************************************************************)
Gen == traversal_gen[1]

Running(a, fn) == app = a /\ traversal_gen # None /\ Gen.fn = fn

\* The generator has yielded its last record.
Completed == trace # <<>> /\ Last(trace).type \in {"done", "fail"}

\* The generator has raised StopIteration.
Exhausted == traversal_gen # None /\ Gen.pc = "end"

Types(t) == {t[i].type : i \in 1..Len(t)}

Range(q) == {q[i] : i \in 1..Len(q)}

\* The nodes one edge from a node of W.
Successors(adj, W) == UNION {Range(adj[v]) : v \in W}

\* The nodes reachable from the nodes of layer, seen included.
RECURSIVE Closure(_, _, _)
Closure(adj, seen, layer) ==
    IF layer = {} THEN seen
    ELSE LET next == Successors(adj, layer) \ seen
         IN  Closure(adj, seen \cup next, next)

Reachable(adj, s) == Closure(adj, {s}, {s})

\* The least number of edges from s to each node reachable from it, found
\* layer by layer: layer holds the nodes at d edges, seen those at d or less.
RECURSIVE Layers(_, _, _, _)
Layers(adj, seen, layer, d) ==
    IF layer = {} THEN [v \in {} |-> 0]
    ELSE LET next == Successors(adj, layer) \ seen
         IN  [v \in layer |-> d] @@ Layers(adj, seen \cup next, next, d + 1)

Distances(adj, s) == Layers(adj, {s}, {s}, 0)

Adjacent(a, b) ==
    \/ a[1] = b[1] /\ (a[2] = b[2] + 1 \/ b[2] = a[2] + 1)
    \/ a[2] = b[2] /\ (a[1] = b[1] + 1 \/ b[1] = a[1] + 1)

\* p is a connected path of open cells from START_POS to EXIT_POS that
\* repeats no cell.
ValidPath(p) ==
    /\ p # <<>>
    /\ p[1] = START_POS
    /\ Last(p) = EXIT_POS
    /\ \A i \in 1..Len(p) : p[i] \in DOMAIN graph
    /\ \A i, j \in 1..Len(p) : i # j => p[i] # p[j]
    /\ \A i \in 1..(Len(p) - 1) : Adjacent(p[i], p[i + 1])

SHORTEST_PATH == << <<0, 0>>, <<1, 0>>, <<2, 0>>, <<2, 1>>, <<2, 2>> >>

(***************************************************************************)
(* C1.  The BFS generator of the graph demo, run from "A" to its done      *)
(* step, leaves the traversal order A, B, C, D, E, F.                      *)
(***************************************************************************)
C1_BfsOrder ==
    (Running("graph", "get_bfs_gen") /\ Gen.start = "A" /\ Completed)
        => order = <<"A", "B", "C", "D", "E", "F">>

C1_Witness ==
    /\ Running("graph", "get_bfs_gen") /\ Gen.start = "A"
    /\ Completed /\ Last(trace).type = "done"
    /\ Len(order) = 6

(***************************************************************************)
(* C2.  The DFS generator of the graph demo, run from "A" to its done      *)
(* step, leaves the traversal order A, B, D, E, F, C.                      *)
(***************************************************************************)
C2_DfsOrder ==
    (Running("graph", "get_dfs_gen") /\ Gen.start = "A" /\ Completed)
        => order = <<"A", "B", "D", "E", "F", "C">>

C2_Witness ==
    /\ Running("graph", "get_dfs_gen") /\ Gen.start = "A"
    /\ Completed /\ Last(trace).type = "done"
    /\ Len(order) = 6

(***************************************************************************)
(* C3.  On MAZE_GRID the maze BFS generator started at (0,0) never yields  *)
(* fail, and its last record is a done record whose path is                *)
(* (0,0),(1,0),(2,0),(2,1),(2,2).                                          *)
(***************************************************************************)
C3_MazeBfsPath ==
    (Running("maze", "get_bfs_gen") /\ grid = MAZE_GRID /\ Gen.start = START_POS)
        => /\ "fail" \notin Types(trace)
           /\ (Completed \/ Exhausted)
                => /\ Last(trace).type = "done"
                   /\ Last(trace).structure = SHORTEST_PATH
                   /\ path = SHORTEST_PATH

C3_Witness ==
    /\ Running("maze", "get_bfs_gen") /\ grid = MAZE_GRID
    /\ Exhausted
    /\ Last(trace).type = "done"
    /\ Len(Last(trace).structure) = 5

(***************************************************************************)
(* C4.  The maze DFS generator started at (0,0): every done record carries *)
(* a path from (0,0) to (2,2) over open cells, without a repeated cell,    *)
(* each cell orthogonally adjacent to the one before it; on MAZE_GRID the  *)
(* last record is such a done record.                                      *)
(***************************************************************************)
C4_MazeDfsValidPath ==
    (Running("maze", "get_dfs_gen") /\ Gen.start = START_POS)
        => /\ \A i \in 1..Len(trace) :
                 trace[i].type = "done" => ValidPath(trace[i].structure) /\ ValidPath(path)
           /\ (grid = MAZE_GRID /\ (Completed \/ Exhausted))
                 => Last(trace).type = "done"

C4_Witness ==
    /\ Running("maze", "get_dfs_gen") /\ grid = MAZE_GRID
    /\ Exhausted
    /\ Last(trace).type = "done"
    /\ ValidPath(Last(trace).structure)

(***************************************************************************)
(* C5.  Graph demo: the traversal a run button starts begins at the node   *)
(* selected in the start-node selector: its init record has the frontier   *)
(* [X] and X is the first node of the traversal order.                     *)
(***************************************************************************)
C5_StartsAtSelected ==
    (app = "graph" /\ traversal_gen # None /\ trace # <<>>)
        => /\ trace[1].type = "init"
           /\ trace[1].structure = <<radio_selected>>
           /\ order # <<>> => order[1] = radio_selected

(***************************************************************************)
(* C6.  Graph demo, BFS and DFS from any start node: at the done record    *)
(* the traversal order holds every node reachable from the start exactly   *)
(* once and no other node.                                                 *)
(***************************************************************************)
C6_ReachableOnce ==
    (app = "graph" /\ traversal_gen # None /\ Completed)
        => /\ Range(order) = Reachable(GRAPH, Gen.start)
           /\ Len(order) = Cardinality(Reachable(GRAPH, Gen.start))

C6_Witness ==
    /\ Running("graph", "get_bfs_gen") /\ Gen.start = "A"
    /\ Completed
    /\ Range(order) = Nodes
    /\ Len(order) = Cardinality(Nodes)

(***************************************************************************)
(* C7.  BFS takes nodes at their least edge count from the start: in the   *)
(* graph demo the order of dequeuing never decreases in distance, and in   *)
(* the maze the path of every visited cell has distance + 1 cells.         *)
(***************************************************************************)
C7_BfsShortest ==
    /\ Running("graph", "get_bfs_gen")
         => LET dist == Distances(GRAPH, Gen.start)
            IN  \A i, j \in 1..Len(order) :
                   i < j => dist[order[i]] <= dist[order[j]]
    /\ Running("maze", "get_bfs_gen")
         => LET dist == Distances(graph, Gen.start)
            IN  \A i \in 1..Len(trace) :
                   trace[i].type = "visit"
                     => Len(trace[i].structure) = dist[trace[i].node[1]] + 1

\* A cell two columns from the start is visited with a path that had to go
\* round a wall: 5 cells.
C7_Witness ==
    /\ Running("maze", "get_bfs_gen")
    /\ \E i \in 1..Len(trace) :
          /\ trace[i].type = "visit"
          /\ trace[i].node = Some(<<0, 2>>)
          /\ Len(trace[i].structure) = 5

(***************************************************************************)
(* C8.  In every run of each of the four generators the visited set of a   *)
(* record contains the visited set of the record before it.                *)
(***************************************************************************)
C8_VisitedMonotonic ==
    \A i \in 1..(Len(trace) - 1) : trace[i].visited \subseteq trace[i + 1].visited

C8_Witness ==
    /\ Running("maze", "get_dfs_gen")
    /\ Completed
    /\ Len(trace) > 3
    /\ trace[1].visited # Last(trace).visited

(***************************************************************************)
(* C9.  The first record of every DFS generator is an init record with the *)
(* frontier [start] and a visited set that is empty or {start}.            *)
(***************************************************************************)
C9_DfsInitFirst ==
    (traversal_gen # None /\ Gen.fn = "get_dfs_gen" /\ trace # <<>>)
        => /\ trace[1].type = "init"
           /\ trace[1].structure = <<Gen.start>>
           /\ trace[1].visited \in {{}, {Gen.start}}

(***************************************************************************)
(* C10.  Maze BFS and DFS on any well-formed grid with an open start: a    *)
(* done or fail record is the last record of its run; a run in which the   *)
(* exit was never taken from the frontier ends with fail and has no done;  *)
(* a run in which it was taken ends with done and has no fail; no step     *)
(* looks up a cell that self.graph does not hold.                          *)
(***************************************************************************)
ExitTaken ==
    \E i \in 1..Len(trace) : trace[i].type = "visit" /\ trace[i].node = Some(EXIT_POS)

C10_FailOrDone ==
    (app = "maze" /\ traversal_gen # None)
        => /\ \A i \in 1..Len(trace) :
                 trace[i].type \in {"done", "fail"} => i = Len(trace)
           /\ Gen.node # None => Gen.node[1] \in DOMAIN graph
           /\ ExitTaken => "fail" \notin Types(trace)
           /\ ~ExitTaken => "done" \notin Types(trace)
           /\ Exhausted => Last(trace).type = IF ExitTaken THEN "done" ELSE "fail"

C10_Witness ==
    /\ app = "maze" /\ Exhausted
    /\ EXIT_POS \in DOMAIN graph
    /\ ~ExitTaken
    /\ Last(trace).type = "fail"

(***************************************************************************)
(* C11.  Once the live generator has yielded its last record, a frame      *)
(* pulls no further record and leaves the traversal order, path, visited   *)
(* set, frontier, current node, status and counters as they are; once      *)
(* animation_finished is set, a frame does not call next() at all.         *)
(***************************************************************************)
Displayed ==
    <<order, path, VisitedOf, active_structure, current_node, status,
      comparison_stats>>

C11_ExhaustionFreezes ==
    [][(Completed /\ now' # now)
          => /\ trace' = trace
             /\ Displayed' = Displayed
             /\ animation_finished => animation_finished'
             /\ animation_finished => traversal_gen' = traversal_gen]_vars

\* The maze generator ended with fail and a later frame met StopIteration.
C11_Witness ==
    /\ app = "maze" /\ Exhausted /\ animation_finished
    /\ Last(trace).type = "fail"
    /\ now > last_step_time

(***************************************************************************)
(* C12.  Pacing of update().  A traversal is active and unfinished when a  *)
(* generator is held, animation_finished is not set and the generator has  *)
(* not yielded its last record.  speed_value is in tenths, so the delay    *)
(* 1000 / speed is 10000 / speed_value ms.                                 *)
(***************************************************************************)
ActiveUnfinished == traversal_gen # None /\ ~animation_finished /\ ~Completed

\* Exactly one record is pulled by the step to the next state.
PullsOne == Len(trace') = Len(trace) + 1 /\ last_step_time' = now'

\* No record is pulled by the step to the next state.
PullsNone == trace' = trace /\ traversal_gen' = traversal_gen

\* As claimed: a frame pulls one record if the elapsed time is greater than
\* or equal to the delay, and none if it is less.
C12_PacingAtLeast ==
    [][(ActiveUnfinished /\ now' # now)
          => IF (now' - last_step_time) * speed_value >= 10000
             THEN PullsOne ELSE PullsNone]_vars

\* As amended: a frame pulls one record if the elapsed time is strictly
\* greater than the delay, and none if it is less than or equal to it.
C12_PacingGreater ==
    [][(ActiveUnfinished /\ now' # now)
          => IF (now' - last_step_time) * speed_value > 10000
             THEN PullsOne ELSE PullsNone]_vars

\* A frame has come exactly one delay after the last pull, and has not
\* pulled: the clock stands at last_step_time + delay.
C12_Witness ==
    /\ ActiveUnfinished
    /\ Len(trace) >= 2
    /\ (now - last_step_time) * speed_value = 10000

(***************************************************************************)
(* C13.  A step record is a snapshot: the visited set and the frontier     *)
(* that record i carries keep the contents they had when it was yielded,   *)
(* however far the generator is advanced afterwards.                       *)
(***************************************************************************)
\* The elements, now, of the visited element of the i-th record: every
\* yield hands out the frame's local `visited`, the one set object the
\* generator goes on adding to.
RecordVisited(i) == traversal_gen[1].visited

\* The elements, now, of the fourth element of the i-th record: list(queue),
\* list(stack), a path list or [], none of which is changed after the yield.
RecordStructure(i) == trace[i].structure

C13_Snapshot ==
    traversal_gen # None
        => \A i \in 1..Len(trace) :
              /\ RecordVisited(i) = trace[i].visited
              /\ RecordStructure(i) = trace[i].structure

(***************************************************************************)
(* C14.  After a pull the driver shows the record pulled: self.visited     *)
(* holds the visited set of the record, in both demos, and the frontier    *)
(* the graph demo keeps, self.active_structure, is the frontier of the     *)
(* record.  (The maze driver keeps no frontier: update() drops the fourth  *)
(* element of the record.)                                                 *)
(***************************************************************************)
C14_DriverReflectsStep ==
    (traversal_gen # None /\ trace # <<>>)
        => /\ VisitedOf = Last(trace).visited
           /\ app = "graph" => active_structure = Last(trace).structure

(***************************************************************************)
(* C15.  One traversal at a time: whenever a generator is held, what the   *)
(* driver shows is what that generator has produced since it was created   *)
(* (also when a run button was pressed in the middle of another            *)
(* traversal): the traversal order is the nodes of its visit records, the  *)
(* path that of its last visit, the counters count its visits, the visited *)
(* set is the one of its last record, and its records begin a run of the   *)
(* algorithm of the button pressed from the start handed to it.            *)
(***************************************************************************)
IsVisit(rec) == rec.type = "visit"

Visits(t) == SelectSeq(t, IsVisit)

VisitNodes(t) == [i \in 1..Len(Visits(t)) |-> Visits(t)[i].node[1]]

C15_OnlyNewTraversal ==
    traversal_gen # None
        => /\ is_bfs <=> Gen.fn = "get_bfs_gen"
           /\ trace = <<>>
                => /\ Gen.pc = "start"
                   /\ order = <<>> /\ path = <<>> /\ VisitedOf = {}
                   /\ active_structure = <<>> /\ current_node = None
           /\ trace # <<>>
                => /\ trace[1].type = IF app = "maze" /\ ~is_bfs THEN "visit" ELSE "init"
                   /\ Visits(trace) # <<>> => Visits(trace)[1].node = Some(Gen.start)
           /\ app = "graph"
                => /\ order = VisitNodes(trace)
                   /\ trace # <<>> => active_structure = Last(trace).structure
           /\ app = "maze"
                => /\ path = IF Visits(trace) = <<>> THEN <<>>
                                                     ELSE Last(Visits(trace)).structure
                   /\ comparison_stats =
                         [bfs |-> IF is_bfs THEN Len(Visits(trace)) ELSE 0,
                          dfs |-> IF is_bfs THEN 0 ELSE Len(Visits(trace))]
                   /\ trace # <<>> => VisitedOf = Last(trace).visited

\* A run button was pressed in the middle of a traversal, and the traversal
\* it started has since visited nodes.
C15_Witness ==
    /\ superseded
    /\ traversal_gen # None
    /\ Len(Visits(trace)) >= 2

=============================================================================
